---- MODULE Spec2Model ----
(***************************************************************************)
(* Document analysis system: the ingestion pipeline (document_processor),  *)
(* the vector index wrapper (vector_store), the Redis cache (cache) and    *)
(* the query endpoint with its event loop (monitoring).                    *)
(*                                                                         *)
(* Strings are TLA+ strings; Len, SubSeq and \o act on them as Python's    *)
(* len, slicing and + do.  A path is the sequence of its components, a     *)
(* trailing "" component standing for a trailing "/".                      *)
(***************************************************************************)
EXTENDS Integers, Sequences, FiniteSets, TLC

(***************************************************************************)
(* Bounds of the model.                                                    *)
(***************************************************************************)
\* number of POST /api/query requests that arrive
MaxReq == 2
\* the clock advances in half-TTL steps, at most this many times
MaxTicks == 2

(***************************************************************************)
(* Program constants.                                                      *)
(***************************************************************************)
\* Cache.ttl = int(timedelta(hours=24).total_seconds())
ttl == 86400
\* default chunk_size of _chunk_text
chunk_size == 4000
\* batch_size passed by _process_single_file to add_texts
ingest_batch_size == 16

Min(a, b) == IF a < b THEN a ELSE b

Range(s) == {s[i] : i \in DOMAIN s}

Last(p) == p[Len(p)]

Front(p) == SubSeq(p, 1, Len(p) - 1)

(***************************************************************************)
(* The document tree on disk and the inputs of the endpoints.              *)
(***************************************************************************)
RECURSIVE Repeat(_, _)
\* Python's s * 2^k
Repeat(s, k) == IF k = 0 THEN s ELSE Repeat(s \o s, k - 1)

\* "A" * 5000, the document of two chunks
LongText == Repeat("A", 12) \o Repeat("A", 9) \o Repeat("A", 8) \o Repeat("A", 7) \o Repeat("A", 3)

\* settings.DOCUMENTS_PATH: "/data/docs" or "/data/docs/"
RootPaths == { <<"data", "docs">>, <<"data", "docs", "">> }

\* the directories below DOCUMENTS_PATH in the top-down order of os.walk,
\* each with the files os.walk lists for it; topicA/docs is a nested directory
\* that carries the base name of the root, topicB holds no file
Tree ==
  << [rel |-> <<>>,                 files |-> <<"readme.pdf", "notes.txt">>],
     [rel |-> <<"topicA">>,         files |-> <<"a2.docx", "a1.pdf">>],
     [rel |-> <<"topicA", "docs">>, files |-> <<"n.pdf">>],
     [rel |-> <<"topicB">>,         files |-> <<>>] >>

\* what the extractor reads from a file when it does not fail
FileText(file) ==
  CASE file = "readme.pdf" -> "root text"
    [] file = "a1.pdf"     -> LongText
    [] file = "a2.docx"    -> "para\n"
    [] OTHER               -> "nested"

Questions == {"A"}

TopicLists == { <<>>, <<"topicA">> }

\* what qa_chain.run can return
Answers == {"", "answer1", "answer2"}

ReqIds == 1..MaxReq

\* the name of the task that runs the handler of request r
Task(r) == "query_" \o ToString(r)

VARIABLES
  directory_path,  \* settings.DOCUMENTS_PATH, the argument of process_directory
  ingest_pc,       \* process_documents_background: "sleeping", "walking", "done"
  walk_i,          \* number of os.walk items process_directory has consumed
  topic,           \* the loop variable topic of process_directory
  topics,          \* DocumentProcessor.topics
  index,           \* the Chroma collection "documents": id -> record
  running,         \* the coroutine the event loop is executing, or "none"
  req,             \* the query requests and the position of their handlers
  redis,           \* the Redis keyspace: key -> [value, expires]
  hits,            \* Cache.hits
  misses,          \* Cache.misses
  now,             \* the clock, in seconds
  gets,            \* history: number of calls of Cache.get
  written,         \* history: every chunk a successful batch wrote
  fileLog,         \* history: every call of _process_single_file
  lastSet,         \* history: key -> value and time of the last Cache.set that returned
  call             \* the last direct call of a function or method, and its result

vars == << directory_path, ingest_pc, walk_i, topic, topics, index, running,
           req, redis, hits, misses, now, gets, written, fileLog, lastSet, call >>

ingestVars == << directory_path, ingest_pc, walk_i, topic, topics, index,
                 written, fileLog >>

cacheVars == << redis, hits, misses, gets >>

(***************************************************************************)
(* os.path and os.walk.                                                    *)
(***************************************************************************)
\* os.path.basename
basename(p) == IF Len(p) = 0 THEN "" ELSE Last(p)

\* os.path.join(p, name)
PathJoin(p, name) == IF Len(p) > 0 /\ Last(p) = "" THEN Front(p) \o <<name>> ELSE p \o <<name>>

RECURSIVE PathJoinAll(_, _)
PathJoinAll(p, names) ==
  IF Len(names) = 0 THEN p ELSE PathJoinAll(PathJoin(p, Head(names)), Tail(names))

\* str.endswith
EndsWith(s, suffix) ==
  /\ Len(s) >= Len(suffix)
  /\ SubSeq(s, Len(s) - Len(suffix) + 1, Len(s)) = suffix

\* the items of one directory of the walk: the directory, then its files
DirItems(dp, d) ==
  LET root == PathJoinAll(dp, d.rel)
  IN  << [kind |-> "dir", root |-> root, file |-> ""] >> \o
      [i \in 1..Len(d.files) |-> [kind |-> "file", root |-> root, file |-> d.files[i]]]

RECURSIVE WalkFrom(_, _)
WalkFrom(dp, k) == IF k > Len(Tree) THEN <<>> ELSE DirItems(dp, Tree[k]) \o WalkFrom(dp, k + 1)

\* os.walk(directory_path), flattened in the order process_directory iterates
WalkItems(dp) == WalkFrom(dp, 1)

(***************************************************************************)
(* DocumentProcessor._chunk_text.                                          *)
(***************************************************************************)
\* the windows of full length only: range(0, len(text) - chunk_size + 1, chunk_size)
chunk_text_full_windows(text, size) ==
  [k \in 1..(Len(text) \div size) |-> SubSeq(text, (k - 1) * size + 1, k * size)]

\* [text[i:i + chunk_size] for i in range(0, len(text), chunk_size)]
chunk_text(text, size) ==
  IF text = "" THEN <<>>
  ELSE [k \in 1..((Len(text) + size - 1) \div size) |->
          SubSeq(text, (k - 1) * size + 1, Min(k * size, Len(text)))]

(***************************************************************************)
(* VectorStore.add_texts over the Chroma collection.                       *)
(***************************************************************************)
\* f"doc_{n}"
DocId(n) == "doc_" \o ToString(n)

\* a write that appends the new text to the record an id already has
ChromaUpsert_appending(idx, ids, texts, metadatas) ==
  [id \in DOMAIN idx \cup Range(ids) |->
     IF id \in Range(ids)
     THEN LET j == CHOOSE j \in DOMAIN ids : ids[j] = id
          IN  [text |-> (IF id \in DOMAIN idx THEN idx[id].text ELSE "") \o texts[j],
               metadata |-> metadatas[j]]
     ELSE idx[id]]

\* Chroma's add_texts with explicit ids: an upsert of one record per id
ChromaUpsert(idx, ids, texts, metadatas) ==
  [id \in DOMAIN idx \cup Range(ids) |->
     IF id \in Range(ids)
     THEN LET j == CHOOSE j \in DOMAIN ids : ids[j] = id /\ \A h \in DOMAIN ids : ids[h] = id => h <= j
          IN  [text |-> texts[j], metadata |-> metadatas[j]]
     ELSE idx[id]]

\* ids numbered within the batch: f"doc_{j}"
BatchIds_within_batch(i, n) == [j \in 1..n |-> DocId(j - 1)]

\* the ids add_texts gives the batch that starts at offset i
BatchIds(i, n) == [j \in 1..n |-> DocId(i + (j - 1))]

RECURSIVE AddBatches(_, _, _, _, _, _)
\* the loop of add_texts from offset i on; the write of batch number failBatch
\* raises (0: no write raises), which ends the loop with the exception
AddBatches(idx, texts, metadatas, batch_size, i, failBatch) ==
  IF i >= Len(texts) THEN [index |-> idx, raised |-> FALSE, stored |-> Len(texts)]
  ELSE IF (i \div batch_size) + 1 = failBatch THEN [index |-> idx, raised |-> TRUE, stored |-> i]
  ELSE LET n == Min(batch_size, Len(texts) - i)
       IN  AddBatches(ChromaUpsert(idx, BatchIds(i, n),
                                   SubSeq(texts, i + 1, i + n),
                                   SubSeq(metadatas, i + 1, i + n)),
                      texts, metadatas, batch_size, i + batch_size, failBatch)

\* add_texts with `except: pass` in place of the handler of lines 74-76
add_texts_reports_success(idx, texts, metadatas, batch_size, failBatch) ==
  [AddBatches(idx, texts, metadatas, batch_size, 0, failBatch) EXCEPT !.raised = FALSE]

\* VectorStore.add_texts: the new collection, whether it raised, and the number
\* of chunks of the batches that were written
add_texts(idx, texts, metadatas, batch_size, failBatch) ==
  AddBatches(idx, texts, metadatas, batch_size, 0, failBatch)

\* number of batches add_texts makes of n texts
NumBatches(n, batch_size) == (n + batch_size - 1) \div batch_size

(***************************************************************************)
(* DocumentProcessor._process_single_file.                                 *)
(***************************************************************************)
\* _extract_text_from_pdf / _extract_text_from_docx: an exception of the
\* reader is caught and yields ""
extract_text(file, extractFails) == IF extractFails THEN "" ELSE FileText(file)

\* the result of the file without the handler of line 133: a failed write
\* leaves _process_single_file as an exception
process_single_file_uncaught(idx, file, tp, extractFails, failBatch) ==
  LET text      == extract_text(file, extractFails)
      chunks    == chunk_text(text, chunk_size)
      metadatas == [k \in DOMAIN chunks |-> [text |-> chunks[k], topic |-> tp]]
      res       == add_texts(idx, chunks, metadatas, ingest_batch_size, failBatch)
  IN  IF text = ""
      THEN [index |-> idx, count |-> 0, outcome |-> "no_text", raised |-> FALSE,
            chunks |-> <<>>, stored |-> 0]
      ELSE IF res.raised
      THEN [index |-> res.index, count |-> 0, outcome |-> "write_failed", raised |-> TRUE,
            chunks |-> chunks, stored |-> res.stored]
      ELSE [index |-> res.index, count |-> Len(chunks), outcome |-> "ok", raised |-> FALSE,
            chunks |-> chunks, stored |-> res.stored]

\* _process_single_file for a .pdf or .docx file: the new collection, the
\* returned count, and whether an exception leaves the method (never: line 133
\* catches it and returns 0)
process_single_file(idx, file, tp, extractFails, failBatch) ==
  LET text      == extract_text(file, extractFails)
      chunks    == chunk_text(text, chunk_size)
      metadatas == [k \in DOMAIN chunks |-> [text |-> chunks[k], topic |-> tp]]
      res       == add_texts(idx, chunks, metadatas, ingest_batch_size, failBatch)
  IN  IF text = ""
      THEN [index |-> idx, count |-> 0, outcome |-> "no_text", raised |-> FALSE,
            chunks |-> <<>>, stored |-> 0]
      ELSE IF res.raised
      THEN [index |-> res.index, count |-> 0, outcome |-> "write_failed", raised |-> FALSE,
            chunks |-> chunks, stored |-> res.stored]
      ELSE [index |-> res.index, count |-> Len(chunks), outcome |-> "ok", raised |-> FALSE,
            chunks |-> chunks, stored |-> res.stored]

\* file.endswith(('.pdf', '.docx'))
Supported(file) == EndsWith(file, ".pdf") \/ EndsWith(file, ".docx")

(***************************************************************************)
(* Background ingestion: process_documents_background, process_directory.  *)
(***************************************************************************)
Items == WalkItems(directory_path)

\* lines 147-148: the topic of a directory joins self.topics unless it is the
\* base name of directory_path
visit_topics(tps, tp, dp) == IF tp # basename(dp) THEN tps \cup {tp} ELSE tps

\* await asyncio.sleep(60) is over and the loop resumes the task, which calls
\* process_directory without ever awaiting again
IngestStart ==
  /\ ingest_pc = "sleeping"
  /\ running = "none"
  /\ ingest_pc' = "walking"
  /\ running' = "ingest"
  /\ UNCHANGED << directory_path, walk_i, topic, topics, index, written, fileLog,
                  req, redis, hits, misses, gets, now >>
  /\ UNCHANGED << call, lastSet >>

\* os.walk yields the next directory: lines 145-148
VisitDir ==
  /\ ingest_pc = "walking"
  /\ running = "ingest"
  /\ walk_i < Len(Items)
  /\ Items[walk_i + 1].kind = "dir"
  /\ LET tp == basename(Items[walk_i + 1].root)
     IN  /\ topic' = tp
         /\ topics' = visit_topics(topics, tp, directory_path)
  /\ walk_i' = walk_i + 1
  /\ UNCHANGED << directory_path, ingest_pc, index, written, fileLog, running,
                  req, redis, hits, misses, gets, now >>
  /\ UNCHANGED << call, lastSet >>

\* a file that is neither .pdf nor .docx: the test of line 150 fails
SkipFile ==
  /\ ingest_pc = "walking"
  /\ running = "ingest"
  /\ walk_i < Len(Items)
  /\ Items[walk_i + 1].kind = "file"
  /\ ~Supported(Items[walk_i + 1].file)
  /\ walk_i' = walk_i + 1
  /\ UNCHANGED << directory_path, ingest_pc, topic, topics, index, written, fileLog,
                  running, req, redis, hits, misses, gets, now >>
  /\ UNCHANGED << call, lastSet >>

\* the chunks of the batches written, as entries of the history
WrittenEntries(res, tp, item) ==
  [k \in 1..res.stored |->
     [id |-> DocId(k - 1), text |-> res.chunks[k], topic |-> tp,
      src |-> PathJoin(item.root, item.file), root |-> item.root]]

\* the entry of the history for one call of _process_single_file
FileEntry(item, tp, res) ==
  [path |-> PathJoin(item.root, item.file), root |-> item.root, topic |-> tp,
   outcome |-> res.outcome, count |-> res.count]

RECURSIVE WalkedFrom(_, _, _)
\* process_directory from item i on, no extraction and no write failing
WalkedFrom(st, dp, i) ==
  IF i > Len(WalkItems(dp)) THEN st
  ELSE LET item == WalkItems(dp)[i]
       IN  IF item.kind = "dir"
           THEN WalkedFrom([st EXCEPT !.topic = basename(item.root),
                                      !.topics = visit_topics(st.topics, basename(item.root), dp)],
                           dp, i + 1)
           ELSE IF ~Supported(item.file) THEN WalkedFrom(st, dp, i + 1)
           ELSE LET res == process_single_file(st.index, item.file, st.topic, FALSE, 0)
                IN  WalkedFrom([st EXCEPT !.index = res.index,
                                          !.written = @ \o WrittenEntries(res, st.topic, item),
                                          !.fileLog = Append(@, FileEntry(item, st.topic, res))],
                               dp, i + 1)

\* the state process_directory(dp) leaves when nothing fails
process_directory(dp) ==
  WalkedFrom([topic |-> "", topics |-> {}, index |-> <<>>, written |-> <<>>,
              fileLog |-> <<>>], dp, 1)

\* the characters of the names, in code point order
Alphabet == "./0123456789:ABCDEFGHIJKLMNOPQRSTUVWXYZ_abcdefghijklmnopqrstuvwxyz"

\* ord(c), up to the order
CharRank(c) == CHOOSE i \in 1..Len(Alphabet) : SubSeq(Alphabet, i, i) = c

RECURSIVE StrLessFrom(_, _, _)
\* a[i:] < b[i:] for strings that agree before position i
StrLessFrom(a, b, i) ==
  IF i > Len(b) THEN FALSE
  ELSE IF i > Len(a) THEN TRUE
  ELSE LET ca == CharRank(SubSeq(a, i, i))
           cb == CharRank(SubSeq(b, i, i))
       IN  IF ca # cb THEN ca < cb ELSE StrLessFrom(a, b, i + 1)

\* Python's a < b on str
StrLess(a, b) == StrLessFrom(a, b, 1)

RECURSIVE Sorted(_)
\* sorted(S) for a set of strings
Sorted(S) ==
  IF S = {} THEN <<>>
  ELSE LET m == CHOOSE x \in S : \A y \in S : y # x => StrLess(x, y)
       IN  <<m>> \o Sorted(S \ {m})

\* DocumentProcessor.get_topics
get_topics(tps) == Sorted(tps)

\* a .pdf or .docx file: lines 150-152 with _process_single_file; an exception
\* that left _process_single_file would end the walk at line 153
ProcessFile ==
  /\ ingest_pc = "walking"
  /\ running = "ingest"
  /\ walk_i < Len(Items)
  /\ Items[walk_i + 1].kind = "file"
  /\ Supported(Items[walk_i + 1].file)
  /\ \E extractFails \in BOOLEAN,
        failBatch \in 0..NumBatches(Len(chunk_text(FileText(Items[walk_i + 1].file), chunk_size)),
                                    ingest_batch_size) :
       LET item == Items[walk_i + 1]
           res  == process_single_file(index, item.file, topic, extractFails, failBatch)
       IN  /\ index' = res.index
           /\ written' = written \o WrittenEntries(res, topic, item)
           /\ fileLog' = Append(fileLog, FileEntry(item, topic, res))
           /\ IF res.raised
              THEN /\ ingest_pc' = "done"
                   /\ running' = "none"
                   /\ walk_i' = walk_i
              ELSE /\ walk_i' = walk_i + 1
                   /\ UNCHANGED << ingest_pc, running >>
  /\ UNCHANGED << directory_path, topic, topics, req, redis, hits, misses, gets, now >>
  /\ UNCHANGED << call, lastSet >>

\* os.walk is exhausted: process_directory and the background task return
IngestFinish ==
  /\ ingest_pc = "walking"
  /\ running = "ingest"
  /\ walk_i = Len(Items)
  /\ ingest_pc' = "done"
  /\ running' = "none"
  /\ UNCHANGED << directory_path, walk_i, topic, topics, index, written, fileLog,
                  req, redis, hits, misses, gets, now >>
  /\ UNCHANGED << call, lastSet >>

(***************************************************************************)
(* Cache over Redis.                                                       *)
(***************************************************************************)
\* GET: a key that was never set, or whose TTL has run out, is absent
RedisGet(store, key, t) ==
  IF key \in DOMAIN store /\ t < store[key].expires
  THEN [found |-> TRUE, value |-> store[key].value]
  ELSE [found |-> FALSE, value |-> ""]

\* SETEX key seconds value
RedisSetex(store, key, seconds, value, t) ==
  [k \in DOMAIN store \cup {key} |->
     IF k = key THEN [value |-> value, expires |-> t + seconds] ELSE store[k]]

\* Cache.get: what it returns and the counters after it.  `if value:` is
\* false for a key that is absent and for one that holds b""; an exception of
\* the client is caught and None is returned, no counter touched
cache_get(store, h, m, key, t, redisFails) ==
  IF redisFails THEN [found |-> FALSE, value |-> "", hits |-> h, misses |-> m]
  ELSE LET v == RedisGet(store, key, t)
       IN  IF v.found /\ v.value # ""
           THEN [found |-> TRUE, value |-> v.value, hits |-> h + 1, misses |-> m]
           ELSE [found |-> FALSE, value |-> "", hits |-> h, misses |-> m + 1]

\* Cache.set
cache_set(store, key, value, t) == RedisSetex(store, key, ttl, value, t)

\* the history of Cache.set after set(key, value) returned at time t
SetLogged(log, key, value, t) ==
  [k \in DOMAIN log \cup {key} |-> IF k = key THEN [value |-> value, at |-> t] ELSE log[k]]

\* no direct call has been made
NoCall == [fn |-> "none"]

(***************************************************************************)
(* POST /api/query.                                                        *)
(***************************************************************************)
RECURSIVE JoinStr(_, _)
\* sep.join(parts)
JoinStr(parts, sep) ==
  IF Len(parts) = 0 THEN ""
  ELSE IF Len(parts) = 1 THEN parts[1]
  ELSE parts[1] \o sep \o JoinStr(Tail(parts), sep)

\* f"query:{question}:{','.join(topics)}"
cache_key(question, tps) == "query:" \o question \o ":" \o JoinStr(tps, ",")

\* a retriever built with empty search_kwargs whatever topics is
Retrieve_unfiltered(idx, tps) == {idx[id] : id \in DOMAIN idx}

\* the records the retriever built at lines 138-139 can return: those whose
\* topic is $in topics, every record when topics is empty
Retrieve(idx, tps) ==
  IF Len(tps) = 0 THEN {idx[id] : id \in DOMAIN idx}
  ELSE {idx[id] : id \in {i \in DOMAIN idx : idx[i].metadata.topic \in Range(tps)}}

\* what the handler of line 150 would leave in Redis if it cached its failure
FailedQueryCache_caches(store, key, t) == cache_set(store, key, "Query processing failed", t)

\* lines 150-152: the handler logs and raises HTTPException, Redis is not written
FailedQueryCache(store, key, t) == store

NoRequest ==
  [pc |-> "none", question |-> "", topics |-> <<>>, status |-> 0, answer |-> "",
   detail |-> "", hit |-> FALSE, cacheErr |-> FALSE, retrieved |-> {},
   failedAt |-> "", storedAt |-> -1]

\* raise HTTPException(status_code=500, detail="Query processing failed")
Failed(rq, stage) ==
  [rq EXCEPT !.pc = "done", !.status = 500, !.detail = "Query processing failed",
             !.failedAt = stage]

\* a client posts a request; it waits until the event loop runs its handler
Arrive(r) ==
  /\ req[r].pc = "none"
  /\ \A r2 \in ReqIds : r2 < r => req[r2].pc # "none"
  /\ \E q \in Questions, tps \in TopicLists :
       req' = [req EXCEPT ![r] = [NoRequest EXCEPT !.pc = "pending", !.question = q,
                                                   !.topics = tps]]
  /\ UNCHANGED << ingestVars, running, cacheVars, now >>
  /\ UNCHANGED << call, lastSet >>

\* the loop starts the handler of the request that has waited longest
\* (requests are numbered as they arrive): lines 129-136, the cache lookup
QueryLookup(r) ==
  /\ req[r].pc = "pending"
  /\ running = "none"
  /\ \A r2 \in ReqIds : r2 < r => req[r2].pc # "pending"
  /\ \E redisFails \in BOOLEAN :
       LET got == cache_get(redis, hits, misses, cache_key(req[r].question, req[r].topics),
                            now, redisFails)
       IN  /\ hits' = got.hits
           /\ misses' = got.misses
           /\ gets' = gets + 1
           /\ IF got.found /\ got.value # ""
              THEN /\ req' = [req EXCEPT ![r].pc = "done", ![r].status = 200,
                                         ![r].answer = got.value, ![r].hit = TRUE,
                                         ![r].cacheErr = redisFails]
                   /\ running' = "none"
              ELSE /\ req' = [req EXCEPT ![r].pc = "retrieving", ![r].cacheErr = redisFails]
                   /\ running' = Task(r)
  /\ UNCHANGED << ingestVars, redis, now >>
  /\ UNCHANGED << call, lastSet >>

\* qa_chain.run, first half: the retriever queries Chroma; an exception of the
\* backend leaves qa_chain.run and is caught at line 150
QueryRetrieve(r) ==
  /\ req[r].pc = "retrieving"
  /\ running = Task(r)
  /\ \E backendFails \in BOOLEAN :
       IF backendFails
       THEN /\ req' = [req EXCEPT ![r] = Failed(req[r], "retrieve")]
            /\ redis' = FailedQueryCache(redis, cache_key(req[r].question, req[r].topics), now)
            /\ running' = "none"
       ELSE /\ req' = [req EXCEPT ![r].pc = "generating",
                                  ![r].retrieved = Retrieve(index, req[r].topics)]
            /\ UNCHANGED << redis, running >>
  /\ UNCHANGED << ingestVars, hits, misses, gets, now >>
  /\ UNCHANGED << call, lastSet >>

\* qa_chain.run, second half: the model answers over the retrieved context, or
\* raises
QueryGenerate(r) ==
  /\ req[r].pc = "generating"
  /\ running = Task(r)
  /\ \/ /\ req' = [req EXCEPT ![r] = Failed(req[r], "generate")]
        /\ redis' = FailedQueryCache(redis, cache_key(req[r].question, req[r].topics), now)
        /\ running' = "none"
     \/ /\ \E a \in Answers : req' = [req EXCEPT ![r].pc = "storing", ![r].answer = a]
        /\ UNCHANGED << redis, running >>
  /\ UNCHANGED << ingestVars, hits, misses, gets, now >>
  /\ UNCHANGED << call, lastSet >>

\* lines 147-149: cache.set and the response; an exception of the Redis client
\* is caught at line 150
QueryStore(r) ==
  /\ req[r].pc = "storing"
  /\ running = Task(r)
  /\ \E redisFails \in BOOLEAN :
       IF redisFails
       THEN /\ req' = [req EXCEPT ![r] = Failed(req[r], "store")]
            /\ UNCHANGED << redis, lastSet >>
       ELSE /\ req' = [req EXCEPT ![r].pc = "done", ![r].status = 200, ![r].storedAt = now]
            /\ redis' = cache_set(redis, cache_key(req[r].question, req[r].topics),
                                  req[r].answer, now)
            /\ lastSet' = SetLogged(lastSet, cache_key(req[r].question, req[r].topics),
                                    req[r].answer, now)
  /\ running' = "none"
  /\ UNCHANGED << ingestVars, hits, misses, gets, now >>
  /\ UNCHANGED call

\* time passes, half a TTL at a time
Tick ==
  /\ now + (ttl \div 2) <= MaxTicks * (ttl \div 2)
  /\ now' = now + (ttl \div 2)
  /\ UNCHANGED << ingestVars, running, req, cacheVars >>
  /\ UNCHANGED << call, lastSet >>

(***************************************************************************)
(* The system: the state after the module of monitoring.py is loaded and   *)
(* startup_event has scheduled the background task.                        *)
(***************************************************************************)
Init ==
  /\ directory_path \in RootPaths
  /\ ingest_pc = "sleeping"
  /\ walk_i = 0
  /\ topic = ""
  /\ topics = {}
  /\ index = <<>>
  /\ running = "none"
  /\ req = [r \in ReqIds |-> NoRequest]
  /\ redis = <<>>
  /\ hits = 0
  /\ misses = 0
  /\ now = 0
  /\ gets = 0
  /\ written = <<>>
  /\ fileLog = <<>>
  /\ lastSet = <<>>
  /\ call = NoCall

Next ==
  \/ IngestStart
  \/ VisitDir
  \/ SkipFile
  \/ ProcessFile
  \/ IngestFinish
  \/ \E r \in ReqIds : Arrive(r)
  \/ \E r \in ReqIds : QueryLookup(r)
  \/ \E r \in ReqIds : QueryRetrieve(r)
  \/ \E r \in ReqIds : QueryGenerate(r)
  \/ \E r \in ReqIds : QueryStore(r)
  \/ Tick

\* the whole service.  The specifications below are parts of it: each starts
\* in a state Spec reaches and takes only steps of Next
Spec == Init /\ [][Next]_vars

\* the ingestion pass alone: no request arrives while it runs
NextIngest ==
  \/ IngestStart
  \/ VisitDir
  \/ SkipFile
  \/ ProcessFile
  \/ IngestFinish

SpecIngest == Init /\ [][NextIngest]_vars

\* the service once the ingestion pass has completed without a failure
InitServing ==
  /\ directory_path = <<"data", "docs">>
  /\ ingest_pc = "done"
  /\ walk_i = Len(Items)
  /\ LET st == process_directory(directory_path)
     IN  /\ topic = st.topic
         /\ topics = st.topics
         /\ index = st.index
         /\ written = st.written
         /\ fileLog = st.fileLog
  /\ running = "none"
  /\ req = [r \in ReqIds |-> NoRequest]
  /\ redis = <<>>
  /\ hits = 0
  /\ misses = 0
  /\ now = 0
  /\ gets = 0
  /\ lastSet = <<>>
  /\ call = NoCall

NextQuery ==
  \/ \E r \in ReqIds : Arrive(r)
  \/ \E r \in ReqIds : QueryLookup(r)
  \/ \E r \in ReqIds : QueryRetrieve(r)
  \/ \E r \in ReqIds : QueryGenerate(r)
  \/ \E r \in ReqIds : QueryStore(r)
  \/ Tick

SpecQuery == InitServing /\ [][NextQuery]_vars

\* the ingestion pass with one client posting a request
NextOneClient ==
  \/ NextIngest
  \/ Arrive(1)
  \/ QueryLookup(1)
  \/ QueryRetrieve(1)
  \/ QueryGenerate(1)
  \/ QueryStore(1)
  \/ Tick

SpecOneClient == Init /\ [][NextOneClient]_vars

(***************************************************************************)
(* C1.  Ids of the index are never reused across calls of add_texts: every *)
(* chunk a call wrote is still there as its own record, so the collection  *)
(* holds as many records as chunks were written.                           *)
(***************************************************************************)
C1_IdsNeverReused ==
  /\ Cardinality(DOMAIN index) = Len(written)
  /\ \A k \in DOMAIN written :
       /\ written[k].id \in DOMAIN index
       /\ index[written[k].id].text = written[k].text
       /\ index[written[k].id].metadata.topic = written[k].topic

(***************************************************************************)
(* C2.  Once a call for (question, topics) has generated and cached its    *)
(* answer, a later identical call whose lookup happens before the TTL of   *)
(* that write runs out, and whose Redis lookup does not fail, is a cache   *)
(* hit: it is answered at once, with the same answer, whatever the answer  *)
(* string is ("" included).                                                *)
(***************************************************************************)
C2_RepeatIsCacheHit ==
  [][\A r \in ReqIds, r1 \in ReqIds :
       ( /\ req[r].pc = "pending"
         /\ req'[r].pc # "pending"
         /\ ~req'[r].cacheErr
         /\ req[r1].pc = "done"
         /\ req[r1].status = 200
         /\ req[r1].storedAt >= 0
         /\ req[r1].question = req[r].question
         /\ req[r1].topics = req[r].topics
         /\ now < req[r1].storedAt + ttl )
       => ( /\ req'[r].pc = "done"
            /\ req'[r].hit
            /\ req'[r].status = 200
            /\ req'[r].answer = req[r1].answer )]_vars

(***************************************************************************)
(* C3.  When retrieval or generation raises, the caller gets one failure,  *)
(* HTTP 500 with the generic detail, and the step leaves Redis as it was:  *)
(* the failed attempt creates or overwrites no entry.                      *)
(***************************************************************************)
C3_FailureLeavesCacheUnchanged ==
  [][\A r \in ReqIds :
       (req[r].pc \in {"retrieving", "generating"} /\ req'[r].failedAt \in {"retrieve", "generate"})
       => ( /\ redis' = redis
            /\ req'[r].pc = "done"
            /\ req'[r].status = 500
            /\ req'[r].detail = "Query processing failed" )]_vars

\* a call failed in retrieval or generation while Redis held an entry under its key
C3_Witness ==
  \E r \in ReqIds :
    /\ req[r].status = 500
    /\ req[r].failedAt \in {"retrieve", "generate"}
    /\ cache_key(req[r].question, req[r].topics) \in DOMAIN redis

(***************************************************************************)
(* C4.  A failure of the retrieval backend is fail-soft: the step of the   *)
(* call that retrieves always leads on to generation (with an empty result *)
(* set if the backend failed), never to an error response.                 *)
(***************************************************************************)
C4_RetrievalFailSoft ==
  [][\A r \in ReqIds :
       (req[r].pc = "retrieving" /\ req'[r].pc # "retrieving")
       => (req'[r].pc = "generating" /\ req'[r].status # 500)]_vars

(***************************************************************************)
(* C5.  Background ingestion does not block query handling: while the pass *)
(* is walking the tree, a request that waits, with no other handler        *)
(* running or waiting before it, can be started.                           *)
(***************************************************************************)
C5_IngestionDoesNotBlock ==
  \A r \in ReqIds :
    ( /\ ingest_pc = "walking"
      /\ req[r].pc = "pending"
      /\ \A r2 \in ReqIds : running # Task(r2) /\ (r2 < r => req[r2].pc # "pending") )
    => ENABLED QueryLookup(r)

(***************************************************************************)
(* C6.  Answer calls interleave at their suspension points: while one call *)
(* waits on retrieval or generation, the call that waits next can do its   *)
(* cache lookup.                                                           *)
(***************************************************************************)
C6_NoHeadOfLineBlocking ==
  \A r1 \in ReqIds, r2 \in ReqIds :
    ( /\ req[r1].pc \in {"retrieving", "generating"}
      /\ req[r2].pc = "pending"
      /\ \A r3 \in ReqIds : r3 < r2 => req[r3].pc # "pending" )
    => ENABLED QueryLookup(r2)

(***************************************************************************)
(* C7.  Topic derivation: every chunk written for a file of a directory    *)
(* other than the root carries the base name of that directory, and every  *)
(* chunk of a file that lies directly in the root carries "".              *)
(***************************************************************************)
C7_TopicDerivation ==
  \A k \in DOMAIN written :
    written[k].topic = IF written[k].root = directory_path THEN ""
                       ELSE basename(written[k].root)

(***************************************************************************)
(* C8.  After the pass, the catalog holds the base name of every directory *)
(* of the tree but the root (a nested directory named like the root        *)
(* included), and get_topics returns exactly these names, in increasing    *)
(* order and without duplicates.                                           *)
(***************************************************************************)
NonRootNames == {basename(PathJoinAll(directory_path, Tree[k].rel)) : k \in 2..Len(Tree)}

C8_TopicCatalog ==
  ingest_pc = "done" =>
    LET t == get_topics(topics)
    IN  /\ topics = NonRootNames
        /\ Range(t) = NonRootNames
        /\ \A i \in 1..(Len(t) - 1) : StrLess(t[i], t[i + 1])

(***************************************************************************)
(* C9.  Per-file fault containment: every supported file the walk has      *)
(* passed was handed to _process_single_file, whatever failed for the      *)
(* files before it, and the pass ends only when os.walk is exhausted.      *)
(***************************************************************************)
C9_FaultContainment ==
  /\ \A i \in 1..walk_i :
       (Items[i].kind = "file" /\ Supported(Items[i].file))
       => \E k \in DOMAIN fileLog : fileLog[k].path = PathJoin(Items[i].root, Items[i].file)
  /\ ingest_pc = "done" => walk_i = Len(Items)

\* the pass is over; a write failed for one file, the extraction for another,
\* and files after them, one of them in the same directory, were stored
C9_Witness ==
  /\ ingest_pc = "done"
  /\ \E i \in DOMAIN fileLog, j \in DOMAIN fileLog :
       /\ i < j
       /\ fileLog[i].outcome = "write_failed"
       /\ fileLog[j].outcome = "ok"
       /\ fileLog[i].root = fileLog[j].root
  /\ \E i \in DOMAIN fileLog, j \in DOMAIN fileLog :
       /\ i < j
       /\ fileLog[i].outcome = "no_text"
       /\ fileLog[j].outcome = "ok"
       /\ fileLog[i].root # fileLog[j].root

(***************************************************************************)
(* C10.  Cache accounting: every call of Cache.get increments exactly one  *)
(* of the counters, so hits + misses is the number of calls of get.        *)
(***************************************************************************)
C10_CacheAccounting == hits + misses = gets

(***************************************************************************)
(* The Cache object called directly: any sequence of get, set and          *)
(* hit_ratio on a fresh Cache, with the clock running.                     *)
(***************************************************************************)
\* number of direct calls of Cache.get
MaxGets == 3

\* the keys the endpoint builds for its inputs
CacheKeys == {cache_key(q, tps) : q \in Questions, tps \in TopicLists}

\* hit_ratio without the test of total
hit_ratio_unguarded(h, m) == [num |-> h, den |-> h + m]

\* Cache.hit_ratio; the float num / den is kept as the pair, 0.0 is 0 / 1
hit_ratio(h, m) ==
  LET total == h + m
  IN  IF total > 0 THEN [num |-> h, den |-> total] ELSE [num |-> 0, den |-> 1]

\* cache.get(key)
CacheGet ==
  /\ gets < MaxGets
  /\ \E key \in CacheKeys, redisFails \in BOOLEAN :
       LET got == cache_get(redis, hits, misses, key, now, redisFails)
       IN  /\ hits' = got.hits
           /\ misses' = got.misses
           /\ gets' = gets + 1
           /\ call' = [fn |-> "get", key |-> key, failed |-> redisFails,
                       found |-> got.found, value |-> got.value]
  /\ UNCHANGED << ingestVars, running, req, redis, now, lastSet >>

\* cache.set(key, value); an exception of the Redis client leaves set
CacheSet ==
  /\ \E key \in CacheKeys, value \in Answers, redisFails \in BOOLEAN :
       /\ IF redisFails
          THEN UNCHANGED << redis, lastSet >>
          ELSE /\ redis' = cache_set(redis, key, value, now)
               /\ lastSet' = SetLogged(lastSet, key, value, now)
       /\ call' = [fn |-> "set", key |-> key, value |-> value, raised |-> redisFails]
  /\ UNCHANGED << ingestVars, running, req, hits, misses, gets, now >>

\* cache.hit_ratio(), as update_system_metrics calls it every second
CacheHitRatio ==
  /\ call' = [fn |-> "hit_ratio", out |-> hit_ratio(hits, misses)]
  /\ UNCHANGED << ingestVars, running, req, redis, hits, misses, gets, now, lastSet >>

NextCache ==
  \/ CacheGet
  \/ CacheSet
  \/ CacheHitRatio
  \/ Tick

SpecCache == Init /\ [][NextCache]_vars

(***************************************************************************)
(* C11.  hit_ratio() returns hits / (hits + misses) after any sequence of  *)
(* get and set, returns 0.0 while no lookup has been counted, returns 0.5  *)
(* after one hit and one miss, and changes neither the counters nor the    *)
(* entries of the cache.                                                   *)
(***************************************************************************)
C11_HitRatio ==
  [][ (call'.fn = "hit_ratio" /\ call' # call) =>
        /\ call'.out.den > 0
        /\ call'.out.num * (IF hits + misses > 0 THEN hits + misses ELSE 1)
             = (IF hits + misses > 0 THEN hits ELSE 0) * call'.out.den
        /\ (hits = 1 /\ misses = 1) => 2 * call'.out.num = call'.out.den
        /\ UNCHANGED << hits, misses, redis >> ]_vars

\* hit_ratio has returned 0.5 after one hit and one miss
C11_Witness ==
  /\ call.fn = "hit_ratio"
  /\ hits = 1
  /\ misses = 1
  /\ 2 * call.out.num = call.out.den

(***************************************************************************)
(* C12.  An entry lives 24 hours from its last set: a get that Redis       *)
(* serves returns the value of the most recent set of the key while fewer  *)
(* than 24 hours have passed since that set, and returns None when the key *)
(* was never set or its 24 hours are over; a set replaces the entry of the *)
(* key and restarts its 24 hours.                                          *)
(***************************************************************************)
C12_EntryLifetime ==
  [][ /\ (call'.fn = "get" /\ gets' = gets + 1 /\ ~call'.failed) =>
           LET k == call'.key
           IN  IF k \in DOMAIN lastSet /\ now < lastSet[k].at + 24 * 3600
               THEN call'.found /\ call'.value = lastSet[k].value
               ELSE ~call'.found
      /\ (call'.fn = "set" /\ lastSet' # lastSet) =>
           redis'[call'.key] = [value |-> call'.value, expires |-> now + 24 * 3600] ]_vars

(***************************************************************************)
(* The functions of the pipeline called directly, one call on inputs drawn *)
(* from bounded sets.                                                      *)
(***************************************************************************)
\* longest text passed to _chunk_text
MaxLen == 4
\* largest chunk_size passed to _chunk_text
MaxSize == 5

RECURSIVE Strs(_)
\* the strings over "a", "b" of at most n characters
Strs(n) ==
  IF n = 0 THEN {""}
  ELSE LET S == Strs(n - 1) IN S \cup {s \o c : s \in S, c \in {"a", "b"}}

Texts == Strs(MaxLen)

\* self._chunk_text(text, chunk_size)
CallChunkText ==
  /\ call = NoCall
  /\ \E text \in Texts, size \in 1..MaxSize :
       call' = [fn |-> "chunk_text", text |-> text, size |-> size,
                out |-> chunk_text(text, size)]
  /\ UNCHANGED << ingestVars, running, req, cacheVars, now, lastSet >>

\* most chunks passed to add_texts in one call
MaxChunks == 4
\* largest batch_size passed to add_texts
MaxBatchSize == 3

\* the chunks of a document of n chunks, and their metadata under topic tp
ChunkSeq(n) == [k \in 1..n |-> "chunk" \o ToString(k)]

ChunkMetadatas(texts, tp) == [k \in DOMAIN texts |-> [text |-> texts[k], topic |-> tp]]

\* the collection before the call: empty, or holding records of earlier calls
PriorIndexes ==
  { <<>>,
    (DocId(1) :> [text |-> "old1", metadata |-> [text |-> "old1", topic |-> "topicB"]])
      @@ (DocId(7) :> [text |-> "old7", metadata |-> [text |-> "old7", topic |-> "topicB"]]) }

\* vector_store.add_texts(texts, metadatas, batch_size), where the write of
\* batch number failBatch raises (0: none does)
CallAddTexts ==
  /\ call = NoCall
  /\ \E prior \in PriorIndexes, n \in 0..MaxChunks, batch_size \in 1..MaxBatchSize :
       \E failBatch \in 0..NumBatches(n, batch_size) :
         LET texts == ChunkSeq(n)
         IN  call' = [fn |-> "add_texts", prior |-> prior, texts |-> texts,
                      batch_size |-> batch_size, failBatch |-> failBatch,
                      out |-> add_texts(prior, texts, ChunkMetadatas(texts, "topicA"),
                                        batch_size, failBatch)]
  /\ UNCHANGED << ingestVars, running, req, cacheVars, now, lastSet >>

\* the same chunks added to the same collection under two batch sizes, no
\* write failing
CallAddTextsTwice ==
  /\ call = NoCall
  /\ \E prior \in PriorIndexes, n \in 0..MaxChunks,
        b1 \in 1..MaxBatchSize, b2 \in 1..MaxBatchSize :
       LET texts     == ChunkSeq(n)
           metadatas == ChunkMetadatas(texts, "topicA")
       IN  call' = [fn |-> "add_texts_twice", prior |-> prior, texts |-> texts,
                    b1 |-> b1, b2 |-> b2,
                    out1 |-> add_texts(prior, texts, metadatas, b1, 0),
                    out2 |-> add_texts(prior, texts, metadatas, b2, 0)]
  /\ UNCHANGED << ingestVars, running, req, cacheVars, now, lastSet >>

\* self._process_single_file(file_path, topic) on a file of the tree
CallProcessSingleFile ==
  /\ call = NoCall
  /\ \E prior \in PriorIndexes, k \in 1..Len(Tree), extractFails \in BOOLEAN :
       \E f \in 1..Len(Tree[k].files) :
         \E failBatch \in 0..NumBatches(Len(chunk_text(FileText(Tree[k].files[f]), chunk_size)),
                                        ingest_batch_size) :
           /\ Supported(Tree[k].files[f])
           /\ call' = [fn |-> "process_single_file", prior |-> prior,
                       file |-> Tree[k].files[f], extractFails |-> extractFails,
                       failBatch |-> failBatch,
                       out |-> process_single_file(prior, Tree[k].files[f], "topicA",
                                                   extractFails, failBatch)]
  /\ UNCHANGED << ingestVars, running, req, cacheVars, now, lastSet >>

\* most topics in the list of a request
MaxTopics == 2

\* questions and topic names, with and without the separators of the key
KeyQuestions == {"A", "A:"}

KeyTopicNames == {"", "a", "a,a", ":a"}

RECURSIVE Lists(_, _)
\* the lists over S of at most n elements
Lists(S, n) ==
  IF n = 0 THEN {<<>>}
  ELSE LET L == Lists(S, n - 1) IN L \cup {Append(l, x) : l \in L, x \in S}

KeyTopicLists == Lists(KeyTopicNames, MaxTopics)

\* line 130 evaluated for two requests
CallCacheKey ==
  /\ call = NoCall
  /\ \E q1 \in KeyQuestions, q2 \in KeyQuestions,
        t1 \in KeyTopicLists, t2 \in KeyTopicLists :
       call' = [fn |-> "cache_key", q1 |-> q1, t1 |-> t1, q2 |-> q2, t2 |-> t2,
                k1 |-> cache_key(q1, t1), k2 |-> cache_key(q2, t2)]
  /\ UNCHANGED << ingestVars, running, req, cacheVars, now, lastSet >>

\* processor.process_directory(directory_path) twice over the same tree, nothing
\* failing; the second pass is run by the same DocumentProcessor or, after a
\* restart of the service, by a new one
CallProcessDirectoryTwice ==
  /\ call = NoCall
  /\ \E dp \in RootPaths, prior \in PriorIndexes, restarted \in BOOLEAN :
       LET first  == WalkedFrom([topic |-> "", topics |-> {}, index |-> prior,
                                 written |-> <<>>, fileLog |-> <<>>], dp, 1)
           second == WalkedFrom([first EXCEPT !.topics = IF restarted THEN {} ELSE @], dp, 1)
       IN  call' = [fn |-> "process_directory_twice", directory_path |-> dp,
                    prior |-> prior, restarted |-> restarted,
                    first |-> first, second |-> second]
  /\ UNCHANGED << ingestVars, running, req, cacheVars, now, lastSet >>

NextCalls ==
  \/ CallChunkText
  \/ CallProcessDirectoryTwice
  \/ CallCacheKey
  \/ CallAddTexts
  \/ CallAddTextsTwice
  \/ CallProcessSingleFile

SpecCalls == Init /\ [][NextCalls]_vars

(***************************************************************************)
(* C13.  _chunk_text(text, size) with size > 0 returns the consecutive     *)
(* windows of text that do not overlap: joined in order they give text     *)
(* back, every chunk but the last has exactly size characters, the last    *)
(* has between 1 and size, and the empty text gives the empty list.        *)
(***************************************************************************)
C13_Chunking ==
  call.fn = "chunk_text" =>
    LET out == call.out
        n   == Len(out)
    IN  /\ JoinStr(out, "") = call.text
        /\ \A k \in 1..n :
             out[k] = SubSeq(call.text, (k - 1) * call.size + 1,
                             Min(k * call.size, Len(call.text)))
        /\ \A k \in 1..(n - 1) : Len(out[k]) = call.size
        /\ n > 0 => Len(out[n]) \in 1..call.size
        /\ call.text = "" => out = <<>>

\* a text of several chunks whose last chunk is shorter than the others
C13_Witness ==
  /\ call.fn = "chunk_text"
  /\ Len(call.out) >= 2
  /\ Len(Last(call.out)) < call.size
  /\ JoinStr(call.out, "") = call.text

(***************************************************************************)
(* C14.  Retrieval of an answer call is scoped by topic: with a non-empty  *)
(* topics list only records of the index whose topic is in the list are    *)
(* retrieved and passed to generation; with an empty list the whole        *)
(* collection is searched, no record being filtered out.                   *)
(***************************************************************************)
C14_TopicScopedRetrieval ==
  \A r \in ReqIds :
    req[r].pc \in {"generating", "storing"} =>
      /\ req[r].retrieved \subseteq {index[id] : id \in DOMAIN index}
      /\ Len(req[r].topics) > 0 =>
           \A rec \in req[r].retrieved :
             \E k \in 1..Len(req[r].topics) : rec.metadata.topic = req[r].topics[k]
      /\ Len(req[r].topics) = 0 =>
           \A id \in DOMAIN index : index[id] \in req[r].retrieved

\* a call scoped to topicA has retrieved while the index holds a record of
\* another topic
C14_Witness ==
  \E r \in ReqIds :
    /\ req[r].pc = "generating"
    /\ req[r].topics = <<"topicA">>
    /\ req[r].retrieved # {}
    /\ \E id \in DOMAIN index : index[id].metadata.topic # "topicA"

(***************************************************************************)
(* C15.  When the write of a batch fails, add_texts raises to its caller   *)
(* and never returns normally; the batches before the failing one stay     *)
(* written, and no chunk of the failing batch or of a later one is         *)
(* written.  _process_single_file contains the exception: it returns 0     *)
(* for the file.                                                           *)
(***************************************************************************)
C15_BatchFailure ==
  /\ (call.fn = "add_texts" /\ call.failBatch > 0) =>
       LET done == (call.failBatch - 1) * call.batch_size
       IN  /\ call.out.raised
           /\ \A k \in 1..done :
                /\ DocId(k - 1) \in DOMAIN call.out.index
                /\ call.out.index[DocId(k - 1)].text = call.texts[k]
           /\ \A id \in (DOMAIN call.out.index \cup DOMAIN call.prior)
                          \ {DocId(k - 1) : k \in 1..done} :
                /\ id \in DOMAIN call.prior
                /\ id \in DOMAIN call.out.index
                /\ call.out.index[id] = call.prior[id]
  /\ (call.fn = "process_single_file" /\ call.failBatch > 0 /\ ~call.extractFails) =>
       /\ ~call.out.raised
       /\ call.out.count = 0

\* the second of three batches failed: the first is written, the third is not
C15_Witness ==
  /\ call.fn = "add_texts"
  /\ call.failBatch = 2
  /\ NumBatches(Len(call.texts), call.batch_size) >= 3
  /\ call.out.raised
  /\ DocId(0) \in DOMAIN call.out.index
  /\ call.out.index[DocId(0)].text = call.texts[1]
  /\ DocId(Len(call.texts) - 1) \notin DOMAIN call.out.index

(***************************************************************************)
(* C16.  The batch size cannot be observed: for the same chunks and the    *)
(* same collection before the call, add_texts without a failing write      *)
(* leaves the same collection under every batch_size >= 1, with every      *)
(* chunk in it under its id, text and topic.                               *)
(***************************************************************************)
C16_BatchSizeNotObservable ==
  call.fn = "add_texts_twice" =>
    /\ ~call.out1.raised
    /\ ~call.out2.raised
    /\ call.out1.index = call.out2.index
    /\ DOMAIN call.out1.index
         = DOMAIN call.prior \cup {DocId(k - 1) : k \in 1..Len(call.texts)}
    /\ \A k \in 1..Len(call.texts) :
         /\ call.out1.index[DocId(k - 1)].text = call.texts[k]
         /\ call.out1.index[DocId(k - 1)].metadata.topic = "topicA"

\* four chunks written as four batches and as two batches, over old records
C16_Witness ==
  /\ call.fn = "add_texts_twice"
  /\ Len(call.texts) = 4
  /\ call.b1 = 1
  /\ call.b2 = 3
  /\ call.prior # <<>>
  /\ call.out1.index = call.out2.index

\* the number of times x occurs in the list l
Occurrences(l, x) == Cardinality({k \in 1..Len(l) : l[k] = x})

(***************************************************************************)
(* C17.  The cache key depends on the order of the topics: two calls with  *)
(* the same question whose topics lists hold the same topics in a          *)
(* different order get different keys, hence a miss for the second and an  *)
(* entry of its own for each.                                              *)
(***************************************************************************)
C17_KeyOrderSensitive ==
  ( /\ call.fn = "cache_key"
    /\ call.q1 = call.q2
    /\ call.t1 # call.t2
    /\ Len(call.t1) = Len(call.t2)
    /\ \A x \in KeyTopicNames : Occurrences(call.t1, x) = Occurrences(call.t2, x) )
  => call.k1 # call.k2

(***************************************************************************)
(* C18.  The cache key is injective: two requests that differ in the       *)
(* question or in the topics list never get the same key, so no request is *)
(* served the answer cached for another (question, topics).                *)
(***************************************************************************)
C18_KeyInjective ==
  ( /\ call.fn = "cache_key"
    /\ << call.q1, call.t1 >> # << call.q2, call.t2 >> )
  => call.k1 # call.k2

(***************************************************************************)
(* C19.  A failure of the cache backend never fails an answer call: when   *)
(* Redis raises during the lookup the call goes on as after a miss, and    *)
(* when it raises during the store of the generated answer the call still  *)
(* returns that answer with status 200.                                    *)
(***************************************************************************)
C19_CacheFailuresContained ==
  [][\A r \in ReqIds :
       /\ (req[r].pc = "pending" /\ req'[r].pc # "pending" /\ req'[r].cacheErr)
            => req'[r].pc = "retrieving"
       /\ (req[r].pc = "storing" /\ req'[r].pc # "storing")
            => (req'[r].status = 200 /\ req'[r].answer = req[r].answer)]_vars

(***************************************************************************)
(* C20.  A second pass of process_directory over the same tree, with no    *)
(* failure in either pass, leaves the collection and the topics exactly as *)
(* the first pass left them.                                               *)
(***************************************************************************)
C20_ReingestIdempotent ==
  call.fn = "process_directory_twice" =>
    /\ call.second.index = call.first.index
    /\ call.second.topics = call.first.topics

\* the second pass wrote chunks, over a collection the first pass had filled
C20_Witness ==
  /\ call.fn = "process_directory_twice"
  /\ call.first.index # call.prior
  /\ Len(call.second.written) > Len(call.first.written)
  /\ call.second.index = call.first.index
  /\ call.second.topics = call.first.topics

(***************************************************************************)
(* C21.  The catalog and the index agree once the ingestion pass is over:  *)
(* every topic get_topics lists is carried by at least one record of the   *)
(* collection, and every non-empty topic a record carries is listed by     *)
(* get_topics.                                                             *)
(***************************************************************************)
C21_CatalogIndexAgreement ==
  ingest_pc = "done" =>
    /\ \A k \in 1..Len(get_topics(topics)) :
         \E id \in DOMAIN index : index[id].metadata.topic = get_topics(topics)[k]
    /\ \A id \in DOMAIN index :
         index[id].metadata.topic # "" =>
           \E k \in 1..Len(get_topics(topics)) :
             get_topics(topics)[k] = index[id].metadata.topic
====
